---- MODULE Spec2Model ----
(***************************************************************************)
(* CrewTokenTracker (crewai/utilities/token_tracker_handler.py).           *)
(*                                                                         *)
(* The tracker owns a reference, _metrics, to one WorkflowTokenMetrics     *)
(* object and an RLock.  Python objects are modelled by a heap: heap[i] is *)
(* the value of the i-th WorkflowTokenMetrics object ever constructed, and *)
(* metrics, ret[t] and snap[t] are references (indices) into it, so that   *)
(* aliasing between the tracker and its callers is visible.  Each thread   *)
(* runs the three methods statement by statement; pc[t] is the source line *)
(* the thread is about to execute (Lnn), or the end of the with block that *)
(* line nn opened (Xnn), where the lock is released.                       *)
(***************************************************************************)
EXTENDS Integers, Sequences, FiniteSets, TLC

\* ---------------------------------------------------------------- bounds
NumThreads == 2
MaxOps == 3

Threads == 1..NumThreads
NoThread == 0
NoRef == 0

\* ---------------------------------------------------------------- inputs
\* Identifiers are arbitrary strings: "" is the empty one, "a_" and "_a"
\* contain the separator of line 105.
AgentNames == {"", "a_"}
TaskNames == {"", "_a"}
Models == {"gpt"}
CallTypes == {"generation"}
\* <<prompt_tokens, completion_tokens>>
TokenCounts == {<<0, 3>>, <<2, -1>>}

\* ------------------------------------------------------------ dataclasses
LLMCallMetrics(ts, an, tn, m, p, c, tot, ct) ==
    [timestamp |-> ts, agent_name |-> an, task_name |-> tn, model |-> m,
     prompt_tokens |-> p, completion_tokens |-> c, total_tokens |-> tot,
     call_type |-> ct]

AgentTokenMetrics(an) ==
    [agent_name |-> an, total_tokens |-> 0, prompt_tokens |-> 0,
     completion_tokens |-> 0, call_count |-> 0, calls |-> <<>>]

TaskTokenMetrics(tn, an) ==
    [task_name |-> tn, agent_name |-> an, total_tokens |-> 0,
     prompt_tokens |-> 0, completion_tokens |-> 0, call_count |-> 0,
     calls |-> <<>>]

\* The empty dict: a function with the empty domain.
EmptyDict == [k \in {} |-> 0]

WorkflowTokenMetrics ==
    [total_tokens |-> 0, prompt_tokens |-> 0, completion_tokens |-> 0,
     per_agent |-> EmptyDict, per_task |-> EmptyDict, all_calls |-> <<>>]

\* The key built from the task name alone.
TaskKeyTaskOnly(task_name, agent_name) == task_name

\* f"{task_name}_{agent_name}"
TaskKey(task_name, agent_name) == task_name \o "_" \o agent_name

\* d[k] = v on a dict
\* d[k] = v on a dict that forgets its other keys.
DictSetOnly(d, k, v) == [x \in {k} |-> v]

DictSet(d, k, v) == [x \in DOMAIN d \cup {k} |-> IF x = k THEN v ELSE d[x]]

\* x = d where x += d was meant
AddLost(x, d) == d

\* x += d
Add(x, d) == x + d

NoArgs == [agent_name |-> "", task_name |-> "", model |-> "",
           prompt_tokens |-> 0, completion_tokens |-> 0, call_type |-> ""]
NoRecord == LLMCallMetrics(0, "", "", "", 0, 0, 0, "")

\* ------------------------------------------------------------------ state
VARIABLES
    heap,           \* heap[i]: value of the i-th WorkflowTokenMetrics object
    metrics,        \* self._metrics: reference to the live object
    lock,           \* self._lock: [owner, count] of the RLock
    clock,          \* datetime.now(), as a logical clock; it also tells
                    \* apart the LLMCallMetrics objects, as identity does
    pc,             \* pc[t]: statement thread t executes next
    args,           \* args[t]: arguments of the running record_llm_call
    total,          \* local: total
    call_record,    \* local: call_record
    agent_metrics,  \* local: agent_metrics, as the object that holds it
    task_key,       \* local: task_key
    task_metrics,   \* local: task_metrics, as the object that holds it
    ret,            \* value get_metrics is returning
    snap,           \* snap[t]: reference the caller got from get_metrics
    snap_val,       \* history: the value of that object when it was returned
    snap_ver,       \* history: how many record_llm_call and reset had been
                    \* serialized when it was returned
    issue,          \* history: issue[t] counts the record_llm_call invocations
                    \* of thread t, so it numbers them in the order issued
    observed,       \* what the caller last read through snap[t], lock-free
    calls,          \* history: calls serialized on the live object, in
                    \* lock-acquisition order, since the last reset, each
                    \* with its thread, its issue number and, once line 70
                    \* has run, the timestamp of its record
    nops            \* number of method invocations so far: bounds the run

locals == <<args, total, call_record, agent_metrics, task_key, task_metrics, ret>>
caller == <<snap, snap_val, snap_ver, observed, issue>>
vars == <<heap, metrics, lock, clock, pc, locals, caller, calls, nops>>

NoObservation == [valid |-> FALSE, total_tokens |-> 0, agent_sum |-> 0, task_sum |-> 0]

Init ==
    /\ heap = <<WorkflowTokenMetrics>>
    /\ metrics = 1
    /\ lock = [owner |-> NoThread, count |-> 0]
    /\ clock = 0
    /\ pc = [t \in Threads |-> "idle"]
    /\ args = [t \in Threads |-> NoArgs]
    /\ total = [t \in Threads |-> 0]
    /\ call_record = [t \in Threads |-> NoRecord]
    /\ agent_metrics = [t \in Threads |-> NoRef]
    /\ task_key = [t \in Threads |-> ""]
    /\ task_metrics = [t \in Threads |-> NoRef]
    /\ ret = [t \in Threads |-> NoRef]
    /\ snap = [t \in Threads |-> NoRef]
    /\ snap_val = [t \in Threads |-> WorkflowTokenMetrics]
    /\ snap_ver = [t \in Threads |-> 0]
    /\ issue = [t \in Threads |-> 0]
    /\ observed = [t \in Threads |-> NoObservation]
    /\ calls = <<>>
    /\ nops = 0

\* ------------------------------------------------------------------ RLock
\* An acquire that never blocks.
CanAcquireAlways(t) == TRUE

\* RLock.acquire blocks unless the lock is free or already owned by t.
CanAcquire(t) == lock.owner \in {NoThread, t}

Acquired(t) == [owner |-> t, count |-> lock.count + 1]

\* A release that leaves the lock held.
ReleasedNot(t) == lock

Released(t) ==
    IF lock.count = 1 THEN [owner |-> NoThread, count |-> 0]
    ELSE [owner |-> lock.owner, count |-> lock.count - 1]

Goto(t, l) == pc' = [pc EXCEPT ![t] = l]

\* heap with field f of object r set to v
Store(r, f, v) == [heap EXCEPT ![r] = [@ EXCEPT ![f] = v]]

\* heap with field f of the AgentTokenMetrics under key k of object r set to v
StoreAgent(r, k, f, v) == [heap EXCEPT ![r].per_agent[k][f] = v]

\* heap with field f of the TaskTokenMetrics under key k of object r set to v
StoreTask(r, k, f, v) == [heap EXCEPT ![r].per_task[k][f] = v]

\* --------------------------------------------------------- record_llm_call
\* The caller invokes record_llm_call(agent_name, task_name, model,
\* prompt_tokens, completion_tokens, call_type).
record_llm_call(t) ==
    /\ pc[t] = "idle"
    /\ nops < MaxOps
    /\ \E an \in AgentNames, tn \in TaskNames, m \in Models,
          tok \in TokenCounts, ct \in CallTypes :
          args' = [args EXCEPT ![t] =
                      [agent_name |-> an, task_name |-> tn, model |-> m,
                       prompt_tokens |-> tok[1], completion_tokens |-> tok[2],
                       call_type |-> ct]]
    /\ nops' = nops + 1
    /\ issue' = [issue EXCEPT ![t] = @ + 1]
    /\ Goto(t, "L66")
    /\ UNCHANGED <<heap, metrics, lock, clock, total, call_record, agent_metrics,
                   task_key, task_metrics, ret, snap, snap_val, snap_ver,
                   observed, calls>>

\* with self._lock:
L66(t) ==
    /\ pc[t] = "L66"
    /\ CanAcquire(t)
    /\ lock' = Acquired(t)
    /\ calls' = Append(calls, [thread |-> t, issue |-> issue[t], timestamp |-> 0,
                               agent_name |-> args[t].agent_name,
                               task_name |-> args[t].task_name,
                               prompt_tokens |-> args[t].prompt_tokens,
                               completion_tokens |-> args[t].completion_tokens])
    /\ Goto(t, "L67")
    /\ UNCHANGED <<heap, metrics, clock, locals, caller, nops>>

\* Line 67 leaving completion_tokens out of the sum.
L67_PromptOnly(t) ==
    /\ pc[t] = "L67"
    /\ total' = [total EXCEPT ![t] = args[t].prompt_tokens]
    /\ Goto(t, "L70")
    /\ UNCHANGED <<heap, metrics, lock, clock, args, call_record, agent_metrics,
                   task_key, task_metrics, ret, caller, calls, nops>>

\* total = prompt_tokens + completion_tokens
L67(t) ==
    /\ pc[t] = "L67"
    /\ total' = [total EXCEPT ![t] = args[t].prompt_tokens + args[t].completion_tokens]
    /\ Goto(t, "L70")
    /\ UNCHANGED <<heap, metrics, lock, clock, args, call_record, agent_metrics,
                   task_key, task_metrics, ret, caller, calls, nops>>

\* call_record = LLMCallMetrics(timestamp=datetime.now(), ...)
L70(t) ==
    /\ pc[t] = "L70"
    /\ clock' = clock + 1
    /\ call_record' = [call_record EXCEPT ![t] =
          LLMCallMetrics(clock', args[t].agent_name, args[t].task_name,
                         args[t].model, args[t].prompt_tokens,
                         args[t].completion_tokens, total[t], args[t].call_type)]
    /\ calls' = [calls EXCEPT ![Len(calls)].timestamp = clock']
    /\ Goto(t, "L82")
    /\ UNCHANGED <<heap, metrics, lock, args, total, agent_metrics, task_key,
                   task_metrics, ret, caller, nops>>

\* self._metrics.total_tokens += total
L82(t) ==
    /\ pc[t] = "L82"
    /\ heap' = Store(metrics, "total_tokens", Add(heap[metrics].total_tokens, total[t]))
    /\ Goto(t, "L83")
    /\ UNCHANGED <<metrics, lock, clock, locals, caller, calls, nops>>

\* self._metrics.prompt_tokens += prompt_tokens
L83(t) ==
    /\ pc[t] = "L83"
    /\ heap' = Store(metrics, "prompt_tokens",
                     Add(heap[metrics].prompt_tokens, args[t].prompt_tokens))
    /\ Goto(t, "L84")
    /\ UNCHANGED <<metrics, lock, clock, locals, caller, calls, nops>>

\* self._metrics.completion_tokens += completion_tokens
L84(t) ==
    /\ pc[t] = "L84"
    /\ heap' = Store(metrics, "completion_tokens",
                     Add(heap[metrics].completion_tokens, args[t].completion_tokens))
    /\ Goto(t, "L85")
    /\ UNCHANGED <<metrics, lock, clock, locals, caller, calls, nops>>

\* Line 85 inserting at the front: all_calls.insert(0, call_record).
L85_Prepend(t) ==
    /\ pc[t] = "L85"
    /\ heap' = Store(metrics, "all_calls", <<call_record[t]>> \o heap[metrics].all_calls)
    /\ Goto(t, "L88")
    /\ UNCHANGED <<metrics, lock, clock, locals, caller, calls, nops>>

\* self._metrics.all_calls.append(call_record)
L85(t) ==
    /\ pc[t] = "L85"
    /\ heap' = Store(metrics, "all_calls", Append(heap[metrics].all_calls, call_record[t]))
    /\ Goto(t, "L88")
    /\ UNCHANGED <<metrics, lock, clock, locals, caller, calls, nops>>

\* Line 89 without the membership test of line 88.
L88_AlwaysCreate(t) ==
    /\ pc[t] = "L88"
    /\ heap' = Store(metrics, "per_agent",
                     DictSet(heap[metrics].per_agent, args[t].agent_name,
                             AgentTokenMetrics(args[t].agent_name)))
    /\ Goto(t, "L92")
    /\ UNCHANGED <<metrics, lock, clock, locals, caller, calls, nops>>

\* if agent_name not in self._metrics.per_agent:
\*     self._metrics.per_agent[agent_name] = AgentTokenMetrics(agent_name=agent_name)
L88(t) ==
    /\ pc[t] = "L88"
    /\ IF args[t].agent_name \notin DOMAIN heap[metrics].per_agent
       THEN heap' = Store(metrics, "per_agent",
                          DictSet(heap[metrics].per_agent, args[t].agent_name,
                                  AgentTokenMetrics(args[t].agent_name)))
       ELSE heap' = heap
    /\ Goto(t, "L92")
    /\ UNCHANGED <<metrics, lock, clock, locals, caller, calls, nops>>

\* agent_metrics = self._metrics.per_agent[agent_name]
L92(t) ==
    /\ pc[t] = "L92"
    /\ agent_metrics' = [agent_metrics EXCEPT ![t] = metrics]
    /\ Goto(t, "L93")
    /\ UNCHANGED <<heap, metrics, lock, clock, args, total, call_record, task_key,
                   task_metrics, ret, caller, calls, nops>>

\* The AgentTokenMetrics object the local agent_metrics refers to.
AgentOf(t) == heap[agent_metrics[t]].per_agent[args[t].agent_name]

\* agent_metrics.total_tokens += total
L93(t) ==
    /\ pc[t] = "L93"
    /\ heap' = StoreAgent(agent_metrics[t], args[t].agent_name, "total_tokens",
                          Add(AgentOf(t).total_tokens, total[t]))
    /\ Goto(t, "L94")
    /\ UNCHANGED <<metrics, lock, clock, locals, caller, calls, nops>>

\* agent_metrics.prompt_tokens += prompt_tokens
L94(t) ==
    /\ pc[t] = "L94"
    /\ heap' = StoreAgent(agent_metrics[t], args[t].agent_name, "prompt_tokens",
                          Add(AgentOf(t).prompt_tokens, args[t].prompt_tokens))
    /\ Goto(t, "L95")
    /\ UNCHANGED <<metrics, lock, clock, locals, caller, calls, nops>>

\* agent_metrics.completion_tokens += completion_tokens
L95(t) ==
    /\ pc[t] = "L95"
    /\ heap' = StoreAgent(agent_metrics[t], args[t].agent_name, "completion_tokens",
                          Add(AgentOf(t).completion_tokens, args[t].completion_tokens))
    /\ Goto(t, "L96")
    /\ UNCHANGED <<metrics, lock, clock, locals, caller, calls, nops>>

\* agent_metrics.call_count += 1
L96(t) ==
    /\ pc[t] = "L96"
    /\ heap' = StoreAgent(agent_metrics[t], args[t].agent_name, "call_count",
                          Add(AgentOf(t).call_count, 1))
    /\ Goto(t, "L97")
    /\ UNCHANGED <<metrics, lock, clock, locals, caller, calls, nops>>

\* Line 97 inserting at the front: calls.insert(0, call_record).
L97_Prepend(t) ==
    /\ pc[t] = "L97"
    /\ heap' = StoreAgent(agent_metrics[t], args[t].agent_name, "calls",
                          <<call_record[t]>> \o AgentOf(t).calls)
    /\ Goto(t, "L105")
    /\ UNCHANGED <<metrics, lock, clock, locals, caller, calls, nops>>

\* agent_metrics.calls.append(call_record)
L97(t) ==
    /\ pc[t] = "L97"
    /\ heap' = StoreAgent(agent_metrics[t], args[t].agent_name, "calls",
                          Append(AgentOf(t).calls, call_record[t]))
    /\ Goto(t, "L105")
    /\ UNCHANGED <<metrics, lock, clock, locals, caller, calls, nops>>

\* task_key = f"{task_name}_{agent_name}"
L105(t) ==
    /\ pc[t] = "L105"
    /\ task_key' = [task_key EXCEPT ![t] = TaskKey(args[t].task_name, args[t].agent_name)]
    /\ Goto(t, "L106")
    /\ UNCHANGED <<heap, metrics, lock, clock, args, total, call_record,
                   agent_metrics, task_metrics, ret, caller, calls, nops>>

\* if task_key not in self._metrics.per_task:
\*     self._metrics.per_task[task_key] = TaskTokenMetrics(task_name=task_name,
\*                                                         agent_name=agent_name)
L106(t) ==
    /\ pc[t] = "L106"
    /\ IF task_key[t] \notin DOMAIN heap[metrics].per_task
       THEN heap' = Store(metrics, "per_task",
                          DictSet(heap[metrics].per_task, task_key[t],
                                  TaskTokenMetrics(args[t].task_name, args[t].agent_name)))
       ELSE heap' = heap
    /\ Goto(t, "L111")
    /\ UNCHANGED <<metrics, lock, clock, locals, caller, calls, nops>>

\* task_metrics = self._metrics.per_task[task_key]
L111(t) ==
    /\ pc[t] = "L111"
    /\ task_metrics' = [task_metrics EXCEPT ![t] = metrics]
    /\ Goto(t, "L112")
    /\ UNCHANGED <<heap, metrics, lock, clock, args, total, call_record,
                   agent_metrics, task_key, ret, caller, calls, nops>>

\* The TaskTokenMetrics object the local task_metrics refers to.
TaskOf(t) == heap[task_metrics[t]].per_task[task_key[t]]

\* task_metrics.total_tokens += total
L112(t) ==
    /\ pc[t] = "L112"
    /\ heap' = StoreTask(task_metrics[t], task_key[t], "total_tokens",
                         Add(TaskOf(t).total_tokens, total[t]))
    /\ Goto(t, "L113")
    /\ UNCHANGED <<metrics, lock, clock, locals, caller, calls, nops>>

\* Line 113 adding total where prompt_tokens was meant.
L113_AddsTotal(t) ==
    /\ pc[t] = "L113"
    /\ heap' = StoreTask(task_metrics[t], task_key[t], "prompt_tokens",
                         Add(TaskOf(t).prompt_tokens, total[t]))
    /\ Goto(t, "L114")
    /\ UNCHANGED <<metrics, lock, clock, locals, caller, calls, nops>>

\* task_metrics.prompt_tokens += prompt_tokens
L113(t) ==
    /\ pc[t] = "L113"
    /\ heap' = StoreTask(task_metrics[t], task_key[t], "prompt_tokens",
                         Add(TaskOf(t).prompt_tokens, args[t].prompt_tokens))
    /\ Goto(t, "L114")
    /\ UNCHANGED <<metrics, lock, clock, locals, caller, calls, nops>>

\* task_metrics.completion_tokens += completion_tokens
L114(t) ==
    /\ pc[t] = "L114"
    /\ heap' = StoreTask(task_metrics[t], task_key[t], "completion_tokens",
                         Add(TaskOf(t).completion_tokens, args[t].completion_tokens))
    /\ Goto(t, "L115")
    /\ UNCHANGED <<metrics, lock, clock, locals, caller, calls, nops>>

\* Line 115 incrementing agent_metrics.call_count, as line 96 does.
L115_CountsAgent(t) ==
    /\ pc[t] = "L115"
    /\ heap' = StoreAgent(agent_metrics[t], args[t].agent_name, "call_count",
                          Add(AgentOf(t).call_count, 1))
    /\ Goto(t, "L116")
    /\ UNCHANGED <<metrics, lock, clock, locals, caller, calls, nops>>

\* task_metrics.call_count += 1
L115(t) ==
    /\ pc[t] = "L115"
    /\ heap' = StoreTask(task_metrics[t], task_key[t], "call_count",
                         Add(TaskOf(t).call_count, 1))
    /\ Goto(t, "L116")
    /\ UNCHANGED <<metrics, lock, clock, locals, caller, calls, nops>>

\* task_metrics.calls.append(call_record)
L116(t) ==
    /\ pc[t] = "L116"
    /\ heap' = StoreTask(task_metrics[t], task_key[t], "calls",
                         Append(TaskOf(t).calls, call_record[t]))
    /\ Goto(t, "X66")
    /\ UNCHANGED <<metrics, lock, clock, locals, caller, calls, nops>>

\* End of the with block of record_llm_call: the lock is released, the
\* frame and its locals are gone and the method returns None.
X66(t) ==
    /\ pc[t] = "X66"
    /\ lock' = Released(t)
    /\ args' = [args EXCEPT ![t] = NoArgs]
    /\ total' = [total EXCEPT ![t] = 0]
    /\ call_record' = [call_record EXCEPT ![t] = NoRecord]
    /\ agent_metrics' = [agent_metrics EXCEPT ![t] = NoRef]
    /\ task_key' = [task_key EXCEPT ![t] = ""]
    /\ task_metrics' = [task_metrics EXCEPT ![t] = NoRef]
    /\ Goto(t, "idle")
    /\ UNCHANGED <<heap, metrics, clock, ret, caller, calls, nops>>

\* ------------------------------------------------------------- get_metrics
get_metrics(t) ==
    /\ pc[t] = "idle"
    /\ nops < MaxOps
    /\ nops' = nops + 1
    /\ Goto(t, "L120")
    /\ UNCHANGED <<heap, metrics, lock, clock, locals, caller, calls>>

\* with self._lock:
L120(t) ==
    /\ pc[t] = "L120"
    /\ CanAcquire(t)
    /\ lock' = Acquired(t)
    /\ Goto(t, "L124")
    /\ UNCHANGED <<heap, metrics, clock, locals, caller, calls, nops>>

\* The value of `return self._metrics`: the object itself, no copy.
Returned == metrics

\* Line 124 returning a copy of the object, constructed on the spot.
L124_Copy(t) ==
    /\ pc[t] = "L124"
    /\ heap' = Append(heap, heap[metrics])
    /\ ret' = [ret EXCEPT ![t] = Len(heap) + 1]
    /\ Goto(t, "X120")
    /\ UNCHANGED <<metrics, lock, clock, args, total, call_record,
                   agent_metrics, task_key, task_metrics, caller, calls, nops>>

\* return self._metrics (the return value is evaluated under the lock)
L124(t) ==
    /\ pc[t] = "L124"
    /\ ret' = [ret EXCEPT ![t] = Returned]
    /\ Goto(t, "X120")
    /\ UNCHANGED <<heap, metrics, lock, clock, args, total, call_record,
                   agent_metrics, task_key, task_metrics, caller, calls, nops>>

\* The number of record_llm_call and reset serialized so far: each call
\* takes one timestamp and each reset constructs one object.
Version == clock + Len(heap) - 1

\* Leaving the with block of get_metrics: the lock is released and the
\* caller receives the reference.
X120(t) ==
    /\ pc[t] = "X120"
    /\ lock' = Released(t)
    /\ snap' = [snap EXCEPT ![t] = ret[t]]
    /\ snap_val' = [snap_val EXCEPT ![t] = heap[ret[t]]]
    /\ snap_ver' = [snap_ver EXCEPT ![t] = Version]
    /\ observed' = [observed EXCEPT ![t] = NoObservation]
    /\ ret' = [ret EXCEPT ![t] = NoRef]
    /\ Goto(t, "idle")
    /\ UNCHANGED <<heap, metrics, clock, args, total, call_record, agent_metrics,
                   task_key, task_metrics, issue, calls, nops>>

\* ------------------------------------------------------------------- reset
reset(t) ==
    /\ pc[t] = "idle"
    /\ nops < MaxOps
    /\ nops' = nops + 1
    /\ Goto(t, "L128")
    /\ UNCHANGED <<heap, metrics, lock, clock, locals, caller, calls>>

\* with self._lock:
L128(t) ==
    /\ pc[t] = "L128"
    /\ CanAcquire(t)
    /\ lock' = Acquired(t)
    /\ Goto(t, "L129")
    /\ UNCHANGED <<heap, metrics, clock, locals, caller, calls, nops>>

\* Line 129 constructing the object without rebinding self._metrics.
L129_NoRebind(t) ==
    /\ pc[t] = "L129"
    /\ heap' = Append(heap, WorkflowTokenMetrics)
    /\ metrics' = metrics
    /\ calls' = <<>>
    /\ Goto(t, "X128")
    /\ UNCHANGED <<lock, clock, locals, caller, nops>>

\* Line 129 clearing the live object in place, the two dicts forgotten.
L129_ClearInPlace(t) ==
    /\ pc[t] = "L129"
    /\ heap' = Append([heap EXCEPT ![metrics] =
                          [@ EXCEPT !.total_tokens = 0, !.prompt_tokens = 0,
                                    !.completion_tokens = 0, !.all_calls = <<>>]],
                      WorkflowTokenMetrics)
    /\ metrics' = metrics
    /\ calls' = <<>>
    /\ Goto(t, "X128")
    /\ UNCHANGED <<lock, clock, locals, caller, nops>>

\* self._metrics = WorkflowTokenMetrics(): a new object is constructed and
\* the reference is rebound; the old object is left as it is.
L129(t) ==
    /\ pc[t] = "L129"
    /\ heap' = Append(heap, WorkflowTokenMetrics)
    /\ metrics' = Len(heap) + 1
    /\ calls' = <<>>
    /\ Goto(t, "X128")
    /\ UNCHANGED <<lock, clock, locals, caller, nops>>

\* End of the with block of reset.
X128(t) ==
    /\ pc[t] = "X128"
    /\ lock' = Released(t)
    /\ Goto(t, "idle")
    /\ UNCHANGED <<heap, metrics, clock, locals, caller, calls, nops>>

\* ------------------------------------------------- the caller of get_metrics
RECURSIVE SeqSum(_)
SeqSum(s) == IF s = <<>> THEN 0 ELSE s[1] + SeqSum(Tail(s))

RECURSIVE DictSum(_, _)
\* sum of field f over the values of dict d
DictSum(d, f) ==
    IF DOMAIN d = {} THEN 0
    ELSE LET k == CHOOSE x \in DOMAIN d : TRUE
         IN d[k][f] + DictSum([x \in DOMAIN d \ {k} |-> d[x]], f)

\* A thread that holds a value returned by get_metrics reads it without the
\* lock (the tracker gives callers no way to take it): s.total_tokens and a
\* sum over s.per_agent and over s.per_task, as a report does.
read_snapshot(t) ==
    /\ pc[t] = "idle"
    /\ snap[t] # NoRef
    /\ ~observed[t].valid
    /\ observed' = [observed EXCEPT ![t] =
          [valid |-> TRUE,
           total_tokens |-> heap[snap[t]].total_tokens,
           agent_sum |-> DictSum(heap[snap[t]].per_agent, "total_tokens"),
           task_sum |-> DictSum(heap[snap[t]].per_task, "total_tokens")]]
    /\ UNCHANGED <<heap, metrics, lock, clock, pc, locals, snap, snap_val,
                   snap_ver, issue, calls, nops>>

\* ------------------------------------------------------------ specification
Next ==
    \E t \in Threads :
        \/ record_llm_call(t) \/ L66(t) \/ L67(t) \/ L70(t)
        \/ L82(t) \/ L83(t) \/ L84(t) \/ L85(t)
        \/ L88(t) \/ L92(t) \/ L93(t) \/ L94(t) \/ L95(t) \/ L96(t) \/ L97(t)
        \/ L105(t) \/ L106(t) \/ L111(t) \/ L112(t) \/ L113(t) \/ L114(t)
        \/ L115(t) \/ L116(t) \/ X66(t)
        \/ get_metrics(t) \/ L120(t) \/ L124(t) \/ X120(t)
        \/ reset(t) \/ L128(t) \/ L129(t) \/ X128(t)
        \/ read_snapshot(t)

Spec == Init /\ [][Next]_vars

\* The steps thread t takes inside a method it has called.
ThreadStep(t) ==
    \/ L66(t) \/ L67(t) \/ L70(t)
    \/ L82(t) \/ L83(t) \/ L84(t) \/ L85(t)
    \/ L88(t) \/ L92(t) \/ L93(t) \/ L94(t) \/ L95(t) \/ L96(t) \/ L97(t)
    \/ L105(t) \/ L106(t) \/ L111(t) \/ L112(t) \/ L113(t) \/ L114(t)
    \/ L115(t) \/ L116(t) \/ X66(t)
    \/ L120(t) \/ L124(t) \/ X120(t)
    \/ L128(t) \/ L129(t) \/ X128(t)

\* Fair scheduling: a thread that can take a step of the method it is in
\* eventually takes one.  Whether and when a method is called is left to the
\* callers.
FairSpec == Spec /\ \A t \in Threads : WF_vars(ThreadStep(t))

\* ------------------------------------------------------------- properties
Live == heap[metrics]

LockFree == lock.owner = NoThread

AllIdle == \A t \in Threads : pc[t] = "idle"

\* A reset has been executed.
WasReset == Len(heap) > 1

\* sum of field f over the records of sequence s
SumField(s, f) == SeqSum([i \in 1..Len(s) |-> s[i][f]])

\* the calls of history h made by agent a / naming the pair (tn, a)
ByAgent(h, a) == SelectSeq(h, LAMBDA c : c.agent_name = a)
ByPair(h, tn, a) == SelectSeq(h, LAMBDA c : c.agent_name = a /\ c.task_name = tn)

SumTotal(h) == SumField(h, "prompt_tokens") + SumField(h, "completion_tokens")

\* aggregate e holds exactly the calls of history h
Counts(e, h) ==
    /\ e.total_tokens = SumTotal(h)
    /\ e.prompt_tokens = SumField(h, "prompt_tokens")
    /\ e.completion_tokens = SumField(h, "completion_tokens")
    /\ e.call_count = Len(h)

\* Labels between acquiring and releasing self._lock.
InRecord == {"L67", "L70", "L82", "L83", "L84", "L85", "L88", "L92", "L93",
             "L94", "L95", "L96", "L97", "L105", "L106", "L111", "L112",
             "L113", "L114", "L115", "L116", "X66"}
InGet == {"L124", "X120"}
InReset == {"L129", "X128"}
Inside == InRecord \cup InGet \cup InReset

\* C1: a snapshot returned by get_metrics keeps, through every later
\* record_llm_call with no reset in between, the value every field had when
\* it was returned.  (Stated at the points where no call is in progress and
\* the snapshot's object is still the one the tracker uses.)
C1_SnapshotIsolation ==
    \A t \in Threads :
        (LockFree /\ snap[t] # NoRef /\ snap[t] = metrics)
            => heap[snap[t]] = snap_val[t]

\* C2: a thread reading a snapshot without the lock never reads workflow
\* total_tokens that differ from the sum of the per-agent total_tokens or
\* from the sum of the per-task total_tokens of that snapshot.
C2_NoTornRead ==
    \A t \in Threads :
        observed[t].valid =>
            /\ observed[t].total_tokens = observed[t].agent_sum
            /\ observed[t].total_tokens = observed[t].task_sum

\* C3: with no reset, once every thread has finished, the live totals are
\* the sums of the arguments of all the calls made and all_calls holds one
\* record per call, with that call's counts.
C3_NoLostUpdates ==
    (AllIdle /\ ~WasReset) =>
        /\ Live.total_tokens = SumTotal(calls)
        /\ Live.prompt_tokens = SumField(calls, "prompt_tokens")
        /\ Live.completion_tokens = SumField(calls, "completion_tokens")
        /\ Len(Live.all_calls) = Len(calls)
        /\ \A i \in 1..Len(calls) :
              /\ Live.all_calls[i].prompt_tokens = calls[i].prompt_tokens
              /\ Live.all_calls[i].completion_tokens = calls[i].completion_tokens
              /\ Live.all_calls[i].total_tokens =
                    calls[i].prompt_tokens + calls[i].completion_tokens

\* C3's case: two different threads have each recorded a call and finished.
C3_Witness ==
    /\ AllIdle /\ ~WasReset
    /\ Len(calls) >= 2
    /\ \E i, j \in 1..Len(calls) : calls[i].thread # calls[j].thread

\* C4: whenever no thread holds the lock, each workflow total equals the sum
\* over the per-agent aggregates, the sum over the per-task aggregates and
\* the sum over the records of all_calls.
C4_CrossView ==
    LockFree =>
        \A f \in {"total_tokens", "prompt_tokens", "completion_tokens"} :
            /\ Live[f] = DictSum(Live.per_agent, f)
            /\ Live[f] = DictSum(Live.per_task, f)
            /\ Live[f] = SumField(Live.all_calls, f)

\* C4's case: the lock is free and the aggregate holds two agents and two
\* task entries.
C4_Witness ==
    /\ LockFree
    /\ Cardinality(DOMAIN Live.per_agent) = 2
    /\ Cardinality(DOMAIN Live.per_task) = 2
    /\ Live.total_tokens # 0

\* C5: for every (task_name, agent_name) pair named by a call, the
\* TaskTokenMetrics stored for that pair counts exactly the calls naming that
\* pair, underscores in the names or not.
C5_PairIdentity ==
    LockFree =>
        \A i \in 1..Len(calls) :
            LET k == TaskKey(calls[i].task_name, calls[i].agent_name)
            IN  /\ k \in DOMAIN Live.per_task
                /\ Counts(Live.per_task[k],
                          ByPair(calls, calls[i].task_name, calls[i].agent_name))

\* the calls of history h all name task tn and one of the agents a, b, and
\* each of the two agents is named
OnlyPairs(h, tn, a, b) ==
    /\ \A i \in 1..Len(h) : h[i].task_name = tn /\ h[i].agent_name \in {a, b}
    /\ ByAgent(h, a) # <<>>
    /\ ByAgent(h, b) # <<>>

\* C6: after calls naming (a, t) and (b, t) with a # b, per_task has one
\* entry under t_a and another under t_b, each counting only the calls of its
\* own agent, and the workflow totals count both.
C6_TaskReuse ==
    \A tn \in TaskNames : \A a, b \in AgentNames :
        (LockFree /\ a # b /\ OnlyPairs(calls, tn, a, b)) =>
            /\ (tn \o "_" \o a) # (tn \o "_" \o b)
            /\ DOMAIN Live.per_task = {tn \o "_" \o a, tn \o "_" \o b}
            /\ Counts(Live.per_task[tn \o "_" \o a], ByAgent(calls, a))
            /\ Counts(Live.per_task[tn \o "_" \o b], ByAgent(calls, b))
            /\ Live.total_tokens = SumTotal(ByAgent(calls, a)) + SumTotal(ByAgent(calls, b))

\* C6's case: one task name has been used by two agents, and both calls are
\* complete.
C6_Witness ==
    /\ LockFree
    /\ \E tn \in TaskNames : \E a, b \in AgentNames :
          a # b /\ OnlyPairs(calls, tn, a, b)

\* C7: whenever no call is in progress, every per_agent aggregate has the
\* totals and the call_count of exactly the calls naming its agent since the
\* last reset.
C7_PerAgent ==
    LockFree =>
        \A a \in DOMAIN Live.per_agent :
            Counts(Live.per_agent[a], ByAgent(calls, a))

\* C7's case: an agent has been named by two calls and another agent by one.
C7_Witness ==
    /\ LockFree
    /\ \E a \in DOMAIN Live.per_agent : Live.per_agent[a].call_count = 2
    /\ \E a \in DOMAIN Live.per_agent : Live.per_agent[a].call_count = 1

\* C8: a get_metrics that follows a reset with no record_llm_call between
\* them returns zero totals, empty per_agent and per_task and empty
\* all_calls.
C8_ResetThenGet ==
    \A t \in Threads :
        (pc[t] = "X120" /\ WasReset /\ calls = <<>>) =>
            /\ heap[ret[t]].total_tokens = 0
            /\ heap[ret[t]].prompt_tokens = 0
            /\ heap[ret[t]].completion_tokens = 0
            /\ DOMAIN heap[ret[t]].per_agent = {}
            /\ DOMAIN heap[ret[t]].per_task = {}
            /\ heap[ret[t]].all_calls = <<>>

\* C8's case: calls were recorded, then reset ran, and get_metrics is
\* returning.
C8_Witness ==
    \E t \in Threads :
        /\ pc[t] = "X120" /\ WasReset /\ calls = <<>>
        /\ heap[1].all_calls # <<>>

\* aggregate m shows, in each of its four views, exactly the history h
Complete(m, h) ==
    /\ m.total_tokens = SumTotal(h)
    /\ m.prompt_tokens = SumField(h, "prompt_tokens")
    /\ m.completion_tokens = SumField(h, "completion_tokens")
    /\ Len(m.all_calls) = Len(h)
    /\ DOMAIN m.per_agent = {h[i].agent_name : i \in 1..Len(h)}
    /\ DOMAIN m.per_task = {h[i].task_name \o "_" \o h[i].agent_name : i \in 1..Len(h)}
    /\ DictSum(m.per_agent, "call_count") = Len(h)
    /\ DictSum(m.per_task, "call_count") = Len(h)

\* C9: what get_metrics returns is either the complete aggregate of the
\* calls made since the last reset or the complete empty aggregate, never
\* some views filled and others empty.
C9_ResetAtomic ==
    \A t \in Threads :
        pc[t] = "X120" =>
            \/ heap[ret[t]] = WorkflowTokenMetrics
            \/ calls # <<>> /\ Complete(heap[ret[t]], calls)

\* C9's cases: get_metrics returns the full aggregate while a reset waits
\* for the lock, and get_metrics returns after a reset that ran while it
\* was waiting for the lock.
C9_Witness ==
    \E t, u \in Threads :
        /\ t # u
        /\ pc[t] = "X120" /\ pc[u] = "L128"
        /\ heap[ret[t]].all_calls # <<>>

\* C10: at most one thread is between acquiring and releasing the lock, and
\* a thread there, the only kind that reads or writes the live aggregate,
\* owns the lock.
C10_MutualExclusion ==
    /\ Cardinality({t \in Threads : pc[t] \in Inside}) <= 1
    /\ \A t \in Threads : pc[t] \in Inside => (lock.owner = t /\ lock.count = 1)
    /\ (\A t \in Threads : pc[t] \notin Inside) => LockFree

\* C10's case: one thread is in the middle of record_llm_call while another
\* has called get_metrics and waits.
C10_Witness ==
    \E t, u \in Threads : pc[t] = "L93" /\ pc[u] = "L120"

\* the elements of sequence s
Range(s) == {s[i] : i \in 1..Len(s)}

\* every LLMCallMetrics retained in aggregate m, in any of its three views
Records(m) ==
    Range(m.all_calls)
        \cup UNION {Range(m.per_agent[a].calls) : a \in DOMAIN m.per_agent}
        \cup UNION {Range(m.per_task[k].calls) : k \in DOMAIN m.per_task}

\* C11: every retained call record, in all_calls, in a per-agent or in a
\* per-task sequence, of the live or of a discarded aggregate, has
\* total_tokens = prompt_tokens + completion_tokens, and the records of the
\* live all_calls still hold the arguments they were constructed from.
C11_DerivedField ==
    /\ \A i \in 1..Len(heap) : \A r \in Records(heap[i]) :
          r.total_tokens = r.prompt_tokens + r.completion_tokens
    /\ \A i \in 1..Len(Live.all_calls) :
          /\ i <= Len(calls)
          /\ Live.all_calls[i].agent_name = calls[i].agent_name
          /\ Live.all_calls[i].task_name = calls[i].task_name
          /\ Live.all_calls[i].prompt_tokens = calls[i].prompt_tokens
          /\ Live.all_calls[i].completion_tokens = calls[i].completion_tokens

\* C11's case: a record with prompt_tokens 0 and a record with negative
\* completion_tokens are retained in all three views, and a later call has
\* completed since the first was constructed.
C11_Witness ==
    /\ LockFree
    /\ Len(Live.all_calls) >= 2
    /\ Live.all_calls[1].prompt_tokens = 0
    /\ \E r \in Range(Live.all_calls) : r.completion_tokens < 0
    /\ \A r \in Range(Live.all_calls) :
          /\ \E a \in DOMAIN Live.per_agent : r \in Range(Live.per_agent[a].calls)
          /\ \E k \in DOMAIN Live.per_task : r \in Range(Live.per_task[k].calls)

\* the AgentTokenMetrics and TaskTokenMetrics objects of aggregate m
Aggregates(m) ==
    {m.per_agent[a] : a \in DOMAIN m.per_agent}
        \cup {m.per_task[k] : k \in DOMAIN m.per_task}

\* C12: whenever no thread holds the lock, every per-agent and every
\* per-task aggregate of the live object has total_tokens = prompt_tokens +
\* completion_tokens, each counter equal to the sum of that field over its own
\* calls, and call_count equal to the length of its calls, which is not 0.
C12_PerAggregate ==
    LockFree =>
        \A e \in Aggregates(Live) :
            /\ e.total_tokens = e.prompt_tokens + e.completion_tokens
            /\ e.total_tokens = SumField(e.calls, "total_tokens")
            /\ e.prompt_tokens = SumField(e.calls, "prompt_tokens")
            /\ e.completion_tokens = SumField(e.calls, "completion_tokens")
            /\ e.call_count = Len(e.calls)
            /\ e.call_count > 0

\* C12's case: the lock is free, an agent's aggregate and a task's aggregate
\* hold two calls each and another aggregate holds one.
C12_Witness ==
    /\ LockFree
    /\ \E a \in DOMAIN Live.per_agent : Len(Live.per_agent[a].calls) = 2
    /\ \E k \in DOMAIN Live.per_task : Len(Live.per_task[k].calls) = 2
    /\ \E e \in Aggregates(Live) : Len(e.calls) = 1

\* the record with timestamp x is in sequence s / is in s before the one
\* with timestamp y
In(s, x) == \E i \in 1..Len(s) : s[i].timestamp = x
Before(s, x, y) ==
    \E i, j \in 1..Len(s) : i < j /\ s[i].timestamp = x /\ s[j].timestamp = y

\* C13: when one thread issued call c1 and later call c2, with no reset
\* between them, then wherever the record of c2 is, in all_calls, in the
\* per-agent sequence of their common agent or in the per-task sequence of
\* their common key, the record of c1 is in the same sequence before it.
C13_ThreadOrder ==
    \A i, j \in 1..Len(calls) :
        (calls[i].thread = calls[j].thread /\ calls[i].issue < calls[j].issue) =>
            LET x == calls[i].timestamp
                y == calls[j].timestamp
                a == calls[j].agent_name
                k == calls[j].task_name \o "_" \o calls[j].agent_name
            IN  /\ In(Live.all_calls, y) => Before(Live.all_calls, x, y)
                /\ (calls[i].agent_name = a /\ a \in DOMAIN Live.per_agent
                        /\ In(Live.per_agent[a].calls, y))
                      => Before(Live.per_agent[a].calls, x, y)
                /\ (calls[i].task_name \o "_" \o calls[i].agent_name = k
                        /\ k \in DOMAIN Live.per_task
                        /\ In(Live.per_task[k].calls, y))
                      => Before(Live.per_task[k].calls, x, y)

\* C13's case: a thread has recorded two calls of one agent and one task,
\* another thread has recorded a call between them, and all three are
\* complete.
C13_Witness ==
    /\ LockFree
    /\ Len(calls) = 3 /\ Len(Live.all_calls) = 3
    /\ calls[1].thread = calls[3].thread /\ calls[1].thread # calls[2].thread
    /\ calls[1].issue < calls[3].issue
    /\ calls[1].agent_name = calls[3].agent_name
    /\ calls[1].task_name = calls[3].task_name
    /\ Len(Live.per_agent[calls[1].agent_name].calls) >= 2

\* C14: under fair scheduling every invocation of record_llm_call,
\* get_metrics or reset, whatever its arguments, acquires the lock, finishes
\* and returns; no thread stays blocked or stuck inside a method.
C14_Completes ==
    \A t \in Threads : (pc[t] # "idle") ~> (pc[t] = "idle")

\* C14's case: a call with empty agent and task names and a negative token
\* count waits for the lock while another thread is inside record_llm_call.
C14_Witness ==
    \E t, u \in Threads :
        /\ pc[t] = "L66" /\ pc[u] \in InRecord
        /\ args[t].agent_name = "" /\ args[t].task_name = ""
        /\ args[t].completion_tokens < 0

\* the number of places record r takes in the calls sequences of dict d
Occurrences(d, r) ==
    Cardinality({<<k, i>> \in (DOMAIN d) \X (1..Len(Live.all_calls)) :
                    i <= Len(d[k].calls) /\ d[k].calls[i] = r})

\* C15: whenever no thread holds the lock, each per-agent calls sequence is
\* the records of all_calls of that agent, in the same order; each per-task
\* calls sequence is the records of all_calls whose key it is, in the same
\* order, hence a subsequence of all_calls; and every record of all_calls is
\* in exactly one per-agent and exactly one per-task sequence.
C15_HistoryViews ==
    LockFree =>
        /\ \A a \in DOMAIN Live.per_agent :
              Live.per_agent[a].calls =
                  SelectSeq(Live.all_calls, LAMBDA r : r.agent_name = a)
        /\ \A k \in DOMAIN Live.per_task :
              Live.per_task[k].calls =
                  SelectSeq(Live.all_calls,
                            LAMBDA r : r.task_name \o "_" \o r.agent_name = k)
        /\ \A r \in Range(Live.all_calls) :
              /\ Occurrences(Live.per_agent, r) = 1
              /\ Occurrences(Live.per_task, r) = 1

\* C15's case: three calls are complete, the first and the third of one
\* agent and the second of another.
C15_Witness ==
    /\ LockFree
    /\ Len(Live.all_calls) = 3
    /\ Live.all_calls[1].agent_name = Live.all_calls[3].agent_name
    /\ Live.all_calls[1].agent_name # Live.all_calls[2].agent_name

\* the step is line 129 of reset
ResetStep == \E t \in Threads : pc[t] = "L129" /\ pc'[t] # "L129"

\* the step changes no object other than the live one, and, when it is the
\* step of reset, no object at all: reset rebinds self._metrics to an object
\* that did not exist
Frozen ==
    /\ \A i \in 1..Len(heap) : (i # metrics \/ ResetStep) => heap'[i] = heap[i]
    /\ ResetStep => metrics' \notin 1..Len(heap)

\* no record of an object the tracker has discarded is in the live object
OldUnreachable ==
    \A i \in 1..Len(heap) : i # metrics => Records(heap[i]) \cap Records(Live) = {}

\* C16: reset leaves the object it discards as it is, and so every snapshot
\* a caller holds of it; no later step, of record_llm_call or any other,
\* changes a discarded object; and no record of a discarded object can be
\* reached from the live object.
C16_ResetReplaces == [][Frozen]_vars /\ []OldUnreachable

\* C16's case: a caller holds a snapshot taken before a reset, and a
\* record_llm_call that took the lock after the reset has completed.
C16_Witness ==
    \E t \in Threads :
        /\ snap[t] # NoRef /\ snap[t] # metrics
        /\ LockFree
        /\ Live.all_calls # <<>>

\* the call stamped x is in all_calls / a per-agent / a per-task sequence of m
InWorkflow(m, x) == In(m.all_calls, x)
InAgents(m, x) == \E a \in DOMAIN m.per_agent : In(m.per_agent[a].calls, x)
InTasks(m, x) == \E k \in DOMAIN m.per_task : In(m.per_task[k].calls, x)

\* the objects holding the call stamped x in some view
Holders(x) ==
    {i \in 1..Len(heap) :
        InWorkflow(heap[i], x) \/ InAgents(heap[i], x) \/ InTasks(heap[i], x)}

\* C17: a record_llm_call running while another thread calls reset is
\* applied to one object only: at every moment the call is held by at most
\* one object, and once the lock is free that object holds it in all_calls,
\* in a per-agent and in a per-task sequence and its totals are the sums over
\* each of its three views; the live object then holds exactly the calls
\* that took the lock after the last reset, in every view or in none.
C17_NeverSplit ==
    /\ \A x \in 1..clock : Cardinality(Holders(x)) <= 1
    /\ LockFree =>
          /\ \A x \in 1..clock : Holders(x) # {}
          /\ \A x \in 1..clock : \A i \in Holders(x) :
                InWorkflow(heap[i], x) /\ InAgents(heap[i], x) /\ InTasks(heap[i], x)
          /\ \A i \in 1..Len(heap) :
                \A f \in {"total_tokens", "prompt_tokens", "completion_tokens"} :
                    /\ heap[i][f] = SumField(heap[i].all_calls, f)
                    /\ heap[i][f] = DictSum(heap[i].per_agent, f)
                    /\ heap[i][f] = DictSum(heap[i].per_task, f)
          /\ Complete(Live, calls)
          /\ \A x \in 1..clock : metrics \in Holders(x) <=> In(calls, x)

\* C17's case: one thread has called reset and waits for the lock while
\* another, inside record_llm_call, has updated the workflow and per-agent
\* views and not yet the per-task view.
C17_Witness ==
    \E t, u \in Threads :
        /\ pc[t] = "L128"
        /\ pc[u] = "L105"
        /\ lock.owner = u

\* the step is one of get_metrics, from taking the lock to returning
GetStep == \E t \in Threads : pc[t] \in {"L120", "L124", "X120"} /\ pc'[t] # pc[t]

\* a step of get_metrics writes no object, constructs none and leaves
\* self._metrics bound as it was; a get_metrics that returns when no
\* record_llm_call and no reset has been serialized since a snapshot still
\* held was returned, returns the same object with the same value
GetPure ==
    /\ GetStep => heap' = heap /\ metrics' = metrics
    /\ \A t \in Threads : (pc[t] = "X120" /\ pc'[t] = "idle") =>
          \A u \in Threads : (snap[u] # NoRef /\ snap_ver[u] = Version) =>
              /\ snap'[t] = snap[u]
              /\ snap_val'[t] = snap_val[u]
              /\ heap'[snap'[t]] = snap_val[u]

\* C18: get_metrics only reads: it changes nothing of the live object,
\* constructs no object, and two get_metrics calls with no record_llm_call
\* or reset serialized between them return equal values.
C18_PureRead == [][GetPure]_vars

\* C18's case: two snapshots are held that were returned with no
\* record_llm_call or reset serialized between them, of an object that holds
\* a call.
C18_Witness ==
    \E t, u \in Threads :
        /\ t # u
        /\ snap[t] # NoRef /\ snap[u] # NoRef
        /\ snap_ver[t] = snap_ver[u]
        /\ snap_val[t].all_calls # <<>>

\* sequence s is an initial part of sequence r
IsPrefix(s, r) == Len(s) <= Len(r) /\ SubSeq(r, 1, Len(s)) = s

\* in a lock-free state the keys of per_agent are the agent names of the
\* records of all_calls, every key of per_task is the key of some record of
\* all_calls, and each AgentTokenMetrics carries its key as agent_name
KeysExact ==
    LockFree =>
        /\ DOMAIN Live.per_agent = {r.agent_name : r \in Range(Live.all_calls)}
        /\ \A k \in DOMAIN Live.per_task :
              \E r \in Range(Live.all_calls) : k = r.task_name \o "_" \o r.agent_name
        /\ \A a \in DOMAIN Live.per_agent : Live.per_agent[a].agent_name = a

\* dict e holds every key of dict d, and under it an aggregate whose calls
\* extend those it had in d
Extends(d, e) ==
    /\ DOMAIN d \subseteq DOMAIN e
    /\ \A k \in DOMAIN d :
          /\ IsPrefix(d[k].calls, e[k].calls)
          /\ e[k].call_count >= d[k].call_count

\* no step removes a key of an object or replaces an aggregate stored in
\* it, and only the step of reset makes the tracker's dicts lose a key
KeysKept ==
    /\ \A i \in 1..Len(heap) :
          /\ Extends(heap[i].per_agent, heap'[i].per_agent)
          /\ Extends(heap[i].per_task, heap'[i].per_task)
    /\ ~ResetStep =>
          /\ Extends(Live.per_agent, heap'[metrics'].per_agent)
          /\ Extends(Live.per_task, heap'[metrics'].per_task)

\* C19: in every lock-free state the keys of per_agent are exactly the agent
\* names recorded in all_calls, every key of per_task is task_name, "_",
\* agent_name of a record of all_calls, and every AgentTokenMetrics has its
\* key as agent_name; only reset removes keys, record_llm_call neither
\* deletes nor replaces an aggregate that exists.
C19_KeySets == []KeysExact /\ [][KeysKept]_vars

\* C19's case: the lock is free, the live object holds two agents, and one
\* of them has been used by a second call after its aggregate was created.
C19_Witness ==
    /\ LockFree
    /\ Cardinality(DOMAIN Live.per_agent) = 2
    /\ \E a \in DOMAIN Live.per_agent : Len(Live.per_agent[a].calls) = 2

====
